---- MODULE Spec2Model ----
(***************************************************************************)
(* Diagnostic emission layer (bootloader/src/pyi_global.c) and endianness  *)
(* normalization header of the PyInstaller bootloader.                     *)
(*                                                                         *)
(* One behaviour is one call of one operation in one build configuration.  *)
(* Text is abstract: a rendered string is a list of segments, and the      *)
(* i-th character of segment s is the distinct symbol Chr(s, i), so that   *)
(* truncation, order and provenance of every byte of a buffer are visible. *)
(* The C library calls follow ISO C: vsnprintf(buf, n, ...) stores at most *)
(* n-1 characters and a terminator and returns the full rendered length    *)
(* (negative on an encoding error); strncpy(d, s, n) stores exactly n      *)
(* bytes, the characters of s and then padding NULs.                       *)
(***************************************************************************)
EXTENDS Integers, Sequences, FiniteSets, TLC

VARIABLES
    op,           \* the operation called ("none" before the call)
    pc,           \* position inside the operation
    ret,          \* where vprintf_to_stderr returns to
    build,        \* build configuration the call runs in
    fmtLen,       \* length of the full rendering of fmt/args (the body)
    funcLen,      \* strlen(funcname)
    descLen,      \* length of the error description string
    pidDigits,    \* number of decimal digits of getpid()
    vtext,        \* the text vprintf_to_stderr is rendering (list of segments)
    msg,          \* char msg[MBTXTLEN] of the running mb* function
    size,         \* size_t size of mbfatal_winerror / mbfatal_perror
    rendered,     \* "none", "ok" or "fail": outcome of the vsnprintf of the body
    oob,          \* indices written outside the buffer that was the target
    utf8_buffer,  \* char utf8_buffer[VPRINTF_TO_STDERR_BUFSIZE]
    errno_,       \* the C runtime's errno
    lastError,    \* the OS last-error code (GetLastError)
    entryCode,    \* the code that was current when the operation was entered
    error_code,   \* DWORD error_code of mbfatal_winerror
    described,    \* the code whose description was emitted ("none" if none)
    shownLen,     \* strlen of the string handed to the sink
    converted,    \* "none", or whether the text re-encoding succeeded
    pid_len,      \* int pid_len of mbvs
    dialogs,      \* message boxes shown, in order
    stderr,       \* writes to the standard error stream, in order
    debugOut,     \* strings passed to OutputDebugStringA
    syslog,       \* records sent to the system log
    target,       \* endianness: the header branch and byte order selected
    wire,         \* endianness: the big-endian byte sequence read
    x,            \* endianness: the value read from wire (digits, MSB first)
    host          \* endianness: the converted host value (digits, MSB first)

vars == <<op, pc, ret, build, fmtLen, funcLen, descLen, pidDigits, vtext, msg,
          size, rendered, oob, utf8_buffer, errno_, lastError, entryCode,
          error_code, described, shownLen, converted, pid_len, dialogs, stderr,
          debugOut, syslog, target, wire, x, host>>

(***************************************************************************)
(* Program constants.                                                      *)
(***************************************************************************)
MBTXTLEN == 1024

VPRINTF_TO_STDERR_BUFSIZE == MBTXTLEN * 2

\* (size_t) of a negative int: all that matters of it is that it is not
\* below MBTXTLEN; it is kept inside the range of TLC integers.
SIZE_MAX == 2147483647

NUL == 0

\* strlen(": ")
SepLen == 2

\* an int pid prints with at most this many decimal digits
MaxPidDigits == 10

(***************************************************************************)
(* Bounds of the model.                                                    *)
(***************************************************************************)
\* how far around each capacity boundary the lengths are enumerated
Slack == 1

(***************************************************************************)
(* Abstract text.                                                          *)
(***************************************************************************)
SegBody == 1
SegFunc == 2
SegSep  == 3
SegDesc == 4
SegPid  == 5

\* the i-th (0-based) character of segment seg; never NUL
Chr(seg, i) == seg * 10000 + i + 1

\* bytes of a stack buffer that nothing has written yet
UGarbage == 0 - 1      \* indeterminate, read as a non-zero byte
UZero    == 0 - 2      \* indeterminate, read as a zero byte

IsUninit(c) == c < 0

IsTerm(c) == c = NUL \/ c = UZero

Seg(s, n) == [seg |-> s, len |-> n]

RECURSIVE TextLen(_)
TextLen(t) == IF t = <<>> THEN 0 ELSE Head(t).len + TextLen(Tail(t))

\* the i-th (0-based) character of the concatenation of the segments of t
RECURSIVE TextChar(_, _)
TextChar(t, i) ==
    IF i < Head(t).len THEN Chr(Head(t).seg, i)
    ELSE TextChar(Tail(t), i - Head(t).len)

Min(a, b) == IF a < b THEN a ELSE b

(***************************************************************************)
(* Buffers.  A buffer is a function on 0..cap-1.  A store is a function    *)
(* from the indices written to the bytes written; the indices that fall    *)
(* outside the buffer are collected in oob.                                *)
(***************************************************************************)
FreshStack(cap, zeroAt) ==
    [i \in 0..(cap - 1) |-> IF i = zeroAt THEN UZero ELSE UGarbage]

Store(buf, w) == [i \in DOMAIN buf |-> IF i \in DOMAIN w THEN w[i] ELSE buf[i]]

Outside(buf, w) == (DOMAIN w) \ (DOMAIN buf)

\* faulty variant: a bounded rendering that fills all n bytes and leaves the
\* terminator out when the text does not fit
VsnprintfNoTerminator(off, n, t) ==
    IF n = 0 THEN <<>>
    ELSE IF TextLen(t) >= n
         THEN [i \in off..(off + n - 1) |-> TextChar(t, i - off)]
         ELSE [i \in off..(off + TextLen(t)) |->
                  IF i = off + TextLen(t) THEN NUL ELSE TextChar(t, i - off)]

\* the bytes vsnprintf(buf + off, n, ...) stores when the rendering is t
VsnprintfStores(off, n, t) ==
    IF n = 0 THEN <<>>
    ELSE LET k == Min(TextLen(t), n - 1)
         IN  [i \in off..(off + k) |->
                 IF i = off + k THEN NUL ELSE TextChar(t, i - off)]

\* faulty variant: a copy that stores the characters that fit and pads nothing
StrncpyNoPadding(off, seg, len, n) ==
    [i \in off..(off + Min(len, n) - 1) |-> Chr(seg, i - off)]

\* faulty variant: a copy that drops a source longer than n wholesale
StrncpyWholesale(off, seg, len, n) ==
    [i \in off..(off + n - 1) |->
        IF len <= n /\ i - off < len THEN Chr(seg, i - off) ELSE NUL]

\* the bytes strncpy(buf + off, s, n) stores, s being segment seg of length len
StrncpyStores(off, seg, len, n) ==
    [i \in off..(off + n - 1) |->
        IF i - off < len THEN Chr(seg, i - off) ELSE NUL]

\* index of the first terminator in lo..hi of buf, or hi + 1 when there is none
RECURSIVE FirstTerm(_, _, _)
FirstTerm(buf, lo, hi) ==
    IF lo > hi THEN lo
    ELSE IF lo = hi THEN (IF IsTerm(buf[lo]) THEN lo ELSE lo + 1)
    ELSE LET mid == (lo + hi) \div 2
         IN  IF \E i \in lo..mid : IsTerm(buf[i])
             THEN FirstTerm(buf, lo, mid)
             ELSE FirstTerm(buf, mid + 1, hi)

\* strlen(buf); Len of the buffer when no terminator lies inside it
Strlen(buf) == FirstTerm(buf, 0, Cardinality(DOMAIN buf) - 1)

(***************************************************************************)
(* Inputs.                                                                 *)
(***************************************************************************)
Builds == {"win32_windowed_debug", "win32_console", "posix", "apple_windowed_debug"}

IsWin32(b) == b \in {"win32_windowed_debug", "win32_console"}

ErrnoCodes == {"ENOENT", "EILSEQ"}

WinCodes == {"ERROR_FILE_NOT_FOUND", "ERROR_NO_UNICODE_TRANSLATION"}

\* a library call may leave an error indicator alone or set it
MayChange(current, code) == {current, code}

\* lengths around the boundary of a buffer of cap bytes
Around(cap) == ((cap - 1 - SepLen - Slack)..(cap + Slack))

\* rendered lengths of the body: short, around the capacity, and very long
BodyLens == (0..Slack) \cup Around(MBTXTLEN) \cup {2 * MBTXTLEN - 48}

FuncLens == (0..Slack) \cup ((MBTXTLEN - 1 - SepLen - Slack)..MBTXTLEN)

DescLens == {0, Slack + 1, MBTXTLEN}

\* where an indeterminate buffer holds a zero byte (-1: nowhere)
StackZeroAt == {0 - 1, Slack}

Init ==
    /\ op = "none" /\ pc = "idle" /\ ret = "none" /\ build = "none"
    /\ fmtLen = 0 /\ funcLen = 0 /\ descLen = 0 /\ pidDigits = 0
    /\ vtext = <<>>
    /\ msg = <<>> /\ size = 0 /\ rendered = "none" /\ oob = {}
    /\ utf8_buffer = <<>>
    /\ errno_ = "0" /\ lastError = "0" /\ entryCode = "none"
    /\ error_code = "none" /\ described = "none"
    /\ shownLen = 0 /\ converted = "none" /\ pid_len = 0
    /\ dialogs = <<>> /\ stderr = <<>> /\ debugOut = <<>> /\ syslog = <<>>
    /\ target = "none" /\ wire = <<>> /\ x = <<>> /\ host = <<>>

endianVars == <<target, wire, x, host>>
sinkVars == <<dialogs, stderr, debugOut, syslog>>
stderrVars == <<ret, vtext, utf8_buffer, pid_len>>
inputVars == <<op, build, fmtLen, funcLen, descLen, pidDigits, entryCode>>

(***************************************************************************)
(* show_message_box                                                        *)
(***************************************************************************)
\* The dialog show_message_box displays: the wide-text dialog when the
\* conversion of msg from UTF-8 succeeded, the raw-byte dialog otherwise.
MessageBoxShown(convOk, textLen, caption, uType) ==
    <<[api     |-> IF convOk THEN "MessageBoxW" ELSE "MessageBoxA",
       textLen |-> textLen,
       caption |-> caption,
       uType   |-> uType]>>

\* faulty variant: nothing is displayed when the conversion fails
show_message_box_NoFallback(caption, uType) ==
    \E convOk \in BOOLEAN :
        /\ converted' = convOk
        /\ shownLen' = Strlen(msg)
        /\ dialogs' = IF convOk
                      THEN dialogs \o MessageBoxShown(convOk, Strlen(msg), caption, uType)
                      ELSE dialogs

show_message_box(caption, uType) ==
    \E convOk \in BOOLEAN :
        /\ converted' = convOk
        /\ shownLen' = Strlen(msg)
        /\ dialogs' = dialogs \o MessageBoxShown(convOk, Strlen(msg), caption, uType)

(***************************************************************************)
(* The bounded rendering of the body into msg, shared by the mb* family.   *)
(***************************************************************************)
BodyText == <<Seg(SegBody, fmtLen)>>

\* size = vsnprintf(...): the int result converted to size_t
ToSizeT(r) == IF r < 0 THEN SIZE_MAX ELSE r

\* vsnprintf(msg + off, n, fmt, args): either the rendering succeeds, or it
\* fails (negative result) and leaves indeterminate bytes behind
RenderBody(off, n) ==
    \/ /\ rendered' = "ok"
       /\ msg' = Store(msg, VsnprintfStores(off, n, BodyText))
       /\ oob' = oob \cup Outside(msg, VsnprintfStores(off, n, BodyText))
    \/ /\ rendered' = "fail"
       /\ \E z \in StackZeroAt :
             msg' = [i \in DOMAIN msg |->
                        IF i < off THEN msg[i]
                        ELSE IF i = off + z THEN UZero ELSE UGarbage]
       /\ UNCHANGED oob

\* faulty variant: the final terminator store left out
TerminatorOmitted == <<>>

\* faulty variant: the final terminator stored one byte early
TerminatorEarly == [i \in {MBTXTLEN - 2} |-> NUL]

\* msg[MBTXTLEN-1] = '\0';
TerminatorStore == [i \in {MBTXTLEN - 1} |-> NUL]

(***************************************************************************)
(* mbfatal_winerror                                                        *)
(***************************************************************************)
mbfatal_winerror_call(Ls, Fs, Ds, Es) ==
    /\ pc = "idle"
    /\ \E l \in Ls, f \in Fs, d \in Ds, e \in Es :
        /\ fmtLen' = l /\ funcLen' = f /\ descLen' = d
        /\ lastError' = e
        /\ entryCode' = e
        \* DWORD error_code = GetLastError();
        /\ error_code' = e
    /\ msg' = FreshStack(MBTXTLEN, 0 - 1)
    /\ op' = "mbfatal_winerror" /\ pc' = "vsnprintf"
    /\ build' = "win32_windowed_debug"
    /\ size' = 0
    /\ UNCHANGED <<pidDigits, rendered, oob, errno_, described, shownLen, converted>>
    /\ UNCHANGED <<sinkVars, stderrVars, endianVars>>

mbfatal_winerror_vsnprintf ==
    /\ op = "mbfatal_winerror" /\ pc = "vsnprintf"
    /\ RenderBody(0, MBTXTLEN)
    /\ size' = ToSizeT(IF rendered' = "ok" THEN fmtLen ELSE 0 - 1)
    \* formatting may overwrite the OS last-error code
    /\ lastError' \in MayChange(lastError, "ERROR_NO_UNICODE_TRANSLATION")
    /\ pc' = "funcname"
    /\ UNCHANGED <<inputVars, errno_, error_code, described, shownLen, converted>>
    /\ UNCHANGED <<sinkVars, stderrVars, endianVars>>

mbfatal_winerror_funcname ==
    /\ op = "mbfatal_winerror" /\ pc = "funcname"
    /\ IF size < MBTXTLEN
       THEN LET w == StrncpyStores(size, SegFunc, funcLen, MBTXTLEN - size - 1)
            IN  /\ msg' = Store(msg, w)
                /\ oob' = oob \cup Outside(msg, w)
                /\ size' = size + funcLen
       ELSE UNCHANGED <<msg, oob, size>>
    /\ pc' = "separator"
    /\ UNCHANGED <<inputVars, rendered, errno_, lastError, error_code, described,
                   shownLen, converted>>
    /\ UNCHANGED <<sinkVars, stderrVars, endianVars>>

mbfatal_winerror_separator ==
    /\ op = "mbfatal_winerror" /\ pc = "separator"
    /\ IF size < MBTXTLEN
       THEN LET w == StrncpyStores(size, SegSep, SepLen, 2)
            IN  /\ msg' = Store(msg, w)
                /\ oob' = oob \cup Outside(msg, w)
                /\ size' = size + 2
       ELSE UNCHANGED <<msg, oob, size>>
    /\ pc' = "description"
    /\ UNCHANGED <<inputVars, rendered, errno_, lastError, error_code, described,
                   shownLen, converted>>
    /\ UNCHANGED <<sinkVars, stderrVars, endianVars>>

mbfatal_winerror_description ==
    /\ op = "mbfatal_winerror" /\ pc = "description"
    /\ IF size < MBTXTLEN
       THEN LET w == StrncpyStores(size, SegDesc, descLen, MBTXTLEN - size - 1)
            IN  /\ msg' = Store(msg, w)
                /\ oob' = oob \cup Outside(msg, w)
                \* GetWinErrorString(error_code)
                /\ described' = error_code
       ELSE UNCHANGED <<msg, oob, described>>
    /\ pc' = "terminate"
    /\ UNCHANGED <<inputVars, size, rendered, errno_, lastError, error_code, shownLen, converted>>
    /\ UNCHANGED <<sinkVars, stderrVars, endianVars>>

mbfatal_winerror_terminate ==
    /\ op = "mbfatal_winerror" /\ pc = "terminate"
    /\ msg' = Store(msg, TerminatorStore)
    /\ oob' = oob \cup Outside(msg, TerminatorStore)
    /\ pc' = "show"
    /\ UNCHANGED <<inputVars, size, rendered, errno_, lastError, error_code,
                   described, shownLen, converted>>
    /\ UNCHANGED <<sinkVars, stderrVars, endianVars>>

mbfatal_winerror_show ==
    /\ op = "mbfatal_winerror" /\ pc = "show"
    /\ show_message_box("Fatal error detected", "MB_ICONEXCLAMATION")
    /\ pc' = "done"
    /\ UNCHANGED <<inputVars, msg, size, rendered, oob, errno_, lastError,
                   error_code, described>>
    /\ UNCHANGED <<stderr, debugOut, syslog, stderrVars, endianVars>>

mbfatal_winerror(Ls, Fs, Ds, Es) ==
    \/ mbfatal_winerror_call(Ls, Fs, Ds, Es)
    \/ mbfatal_winerror_vsnprintf
    \/ mbfatal_winerror_funcname
    \/ mbfatal_winerror_separator
    \/ mbfatal_winerror_description
    \/ mbfatal_winerror_terminate
    \/ mbfatal_winerror_show

(***************************************************************************)
(* mbfatal_perror                                                          *)
(***************************************************************************)
mbfatal_perror_call(Ls, Fs, Ds, Es) ==
    /\ pc = "idle"
    /\ \E l \in Ls, f \in Fs, d \in Ds, e \in Es :
        /\ fmtLen' = l /\ funcLen' = f /\ descLen' = d
        /\ errno_' = e
        /\ entryCode' = e
    /\ msg' = FreshStack(MBTXTLEN, 0 - 1)
    /\ op' = "mbfatal_perror" /\ pc' = "vsnprintf"
    /\ build' = "win32_windowed_debug"
    /\ size' = 0
    /\ UNCHANGED <<pidDigits, rendered, oob, lastError, error_code, described,
                   shownLen, converted>>
    /\ UNCHANGED <<sinkVars, stderrVars, endianVars>>

mbfatal_perror_vsnprintf ==
    /\ op = "mbfatal_perror" /\ pc = "vsnprintf"
    /\ RenderBody(0, MBTXTLEN)
    /\ size' = ToSizeT(IF rendered' = "ok" THEN fmtLen ELSE 0 - 1)
    \* formatting may overwrite errno
    /\ errno_' \in MayChange(errno_, "EILSEQ")
    /\ pc' = "funcname"
    /\ UNCHANGED <<inputVars, lastError, error_code, described, shownLen, converted>>
    /\ UNCHANGED <<sinkVars, stderrVars, endianVars>>

mbfatal_perror_funcname ==
    /\ op = "mbfatal_perror" /\ pc = "funcname"
    /\ IF size < MBTXTLEN
       THEN LET w == StrncpyStores(size, SegFunc, funcLen, MBTXTLEN - size - 1)
            IN  /\ msg' = Store(msg, w)
                /\ oob' = oob \cup Outside(msg, w)
                /\ size' = size + funcLen
       ELSE UNCHANGED <<msg, oob, size>>
    /\ pc' = "separator"
    /\ UNCHANGED <<inputVars, rendered, errno_, lastError, error_code, described,
                   shownLen, converted>>
    /\ UNCHANGED <<sinkVars, stderrVars, endianVars>>

mbfatal_perror_separator ==
    /\ op = "mbfatal_perror" /\ pc = "separator"
    /\ IF size < MBTXTLEN
       THEN LET w == StrncpyStores(size, SegSep, SepLen, 2)
            IN  /\ msg' = Store(msg, w)
                /\ oob' = oob \cup Outside(msg, w)
                /\ size' = size + 2
       ELSE UNCHANGED <<msg, oob, size>>
    /\ pc' = "description"
    /\ UNCHANGED <<inputVars, rendered, errno_, lastError, error_code, described,
                   shownLen, converted>>
    /\ UNCHANGED <<sinkVars, stderrVars, endianVars>>

mbfatal_perror_description ==
    /\ op = "mbfatal_perror" /\ pc = "description"
    /\ IF size < MBTXTLEN
       THEN LET w == StrncpyStores(size, SegDesc, descLen, MBTXTLEN - size - 1)
            IN  /\ msg' = Store(msg, w)
                /\ oob' = oob \cup Outside(msg, w)
                \* strerror(errno)
                /\ described' = errno_
       ELSE UNCHANGED <<msg, oob, described>>
    /\ pc' = "terminate"
    /\ UNCHANGED <<inputVars, size, rendered, errno_, lastError, error_code, shownLen, converted>>
    /\ UNCHANGED <<sinkVars, stderrVars, endianVars>>

mbfatal_perror_terminate ==
    /\ op = "mbfatal_perror" /\ pc = "terminate"
    /\ msg' = Store(msg, TerminatorStore)
    /\ oob' = oob \cup Outside(msg, TerminatorStore)
    /\ pc' = "show"
    /\ UNCHANGED <<inputVars, size, rendered, errno_, lastError, error_code,
                   described, shownLen, converted>>
    /\ UNCHANGED <<sinkVars, stderrVars, endianVars>>

mbfatal_perror_show ==
    /\ op = "mbfatal_perror" /\ pc = "show"
    /\ show_message_box("Fatal error detected", "MB_ICONEXCLAMATION")
    /\ pc' = "done"
    /\ UNCHANGED <<inputVars, msg, size, rendered, oob, errno_, lastError,
                   error_code, described>>
    /\ UNCHANGED <<stderr, debugOut, syslog, stderrVars, endianVars>>

mbfatal_perror(Ls, Fs, Ds, Es) ==
    \/ mbfatal_perror_call(Ls, Fs, Ds, Es)
    \/ mbfatal_perror_vsnprintf
    \/ mbfatal_perror_funcname
    \/ mbfatal_perror_separator
    \/ mbfatal_perror_description
    \/ mbfatal_perror_terminate
    \/ mbfatal_perror_show


(***************************************************************************)
(* mbfatalerror, mbothererror                                              *)
(***************************************************************************)
mbfatalerror_call(Ls) ==
    /\ pc = "idle"
    /\ \E l \in Ls : fmtLen' = l
    /\ msg' = FreshStack(MBTXTLEN, 0 - 1)
    /\ op' = "mbfatalerror" /\ pc' = "vsnprintf"
    /\ build' = "win32_windowed_debug"
    /\ UNCHANGED <<funcLen, descLen, pidDigits, entryCode, size, rendered, oob,
                   errno_, lastError, error_code, described, shownLen, converted>>
    /\ UNCHANGED <<sinkVars, stderrVars, endianVars>>

mbfatalerror_vsnprintf ==
    /\ op = "mbfatalerror" /\ pc = "vsnprintf"
    /\ RenderBody(0, MBTXTLEN)
    /\ pc' = "show"
    /\ UNCHANGED <<inputVars, size, errno_, lastError, error_code, described,
                   shownLen, converted>>
    /\ UNCHANGED <<sinkVars, stderrVars, endianVars>>

mbfatalerror_show ==
    /\ op = "mbfatalerror" /\ pc = "show"
    /\ show_message_box("Fatal error detected", "MB_ICONEXCLAMATION")
    /\ pc' = "done"
    /\ UNCHANGED <<inputVars, msg, size, rendered, oob, errno_, lastError,
                   error_code, described>>
    /\ UNCHANGED <<stderr, debugOut, syslog, stderrVars, endianVars>>

mbfatalerror(Ls) ==
    \/ mbfatalerror_call(Ls)
    \/ mbfatalerror_vsnprintf
    \/ mbfatalerror_show

mbothererror_call(Ls) ==
    /\ pc = "idle"
    /\ \E l \in Ls : fmtLen' = l
    /\ msg' = FreshStack(MBTXTLEN, 0 - 1)
    /\ op' = "mbothererror" /\ pc' = "vsnprintf"
    /\ build' = "win32_windowed_debug"
    /\ UNCHANGED <<funcLen, descLen, pidDigits, entryCode, size, rendered, oob,
                   errno_, lastError, error_code, described, shownLen, converted>>
    /\ UNCHANGED <<sinkVars, stderrVars, endianVars>>

mbothererror_vsnprintf ==
    /\ op = "mbothererror" /\ pc = "vsnprintf"
    /\ RenderBody(0, MBTXTLEN)
    /\ pc' = "show"
    /\ UNCHANGED <<inputVars, size, errno_, lastError, error_code, described,
                   shownLen, converted>>
    /\ UNCHANGED <<sinkVars, stderrVars, endianVars>>

mbothererror_show ==
    /\ op = "mbothererror" /\ pc = "show"
    /\ show_message_box("Error detected", "MB_ICONWARNING")
    /\ pc' = "done"
    /\ UNCHANGED <<inputVars, msg, size, rendered, oob, errno_, lastError,
                   error_code, described>>
    /\ UNCHANGED <<stderr, debugOut, syslog, stderrVars, endianVars>>

mbothererror(Ls) ==
    \/ mbothererror_call(Ls)
    \/ mbothererror_vsnprintf
    \/ mbothererror_show

(***************************************************************************)
(* mbvs                                                                    *)
(***************************************************************************)
SegLBracket == 6
SegRBracket == 7
SegSpace    == 8

\* faulty variant: the prefix rendered without its trailing space
PidTextNoSpace(d) ==
    <<Seg(SegLBracket, 1), Seg(SegPid, d), Seg(SegRBracket, 1)>>

\* the rendering of "[%d] " for a pid of d decimal digits
PidText(d) ==
    <<Seg(SegLBracket, 1), Seg(SegPid, d), Seg(SegRBracket, 1), Seg(SegSpace, 1)>>

\* the bytes sprintf(buf, ...) stores when the rendering is t: all of it
SprintfStores(t) ==
    [i \in 0..TextLen(t) |-> IF i = TextLen(t) THEN NUL ELSE TextChar(t, i)]

mbvs_call(Ls, Ps) ==
    /\ pc = "idle"
    /\ \E l \in Ls, d \in Ps : fmtLen' = l /\ pidDigits' = d
    /\ msg' = FreshStack(MBTXTLEN, 0 - 1)
    /\ op' = "mbvs" /\ pc' = "sprintf"
    /\ build' = "win32_windowed_debug"
    /\ UNCHANGED <<funcLen, descLen, entryCode, size, rendered, oob, errno_,
                   lastError, error_code, described, shownLen, converted>>
    /\ UNCHANGED <<sinkVars, stderrVars, endianVars>>

mbvs_sprintf ==
    /\ op = "mbvs" /\ pc = "sprintf"
    /\ msg' = Store(msg, SprintfStores(PidText(pidDigits)))
    /\ oob' = oob \cup Outside(msg, SprintfStores(PidText(pidDigits)))
    /\ pid_len' = TextLen(PidText(pidDigits))
    /\ pc' = "vsnprintf"
    /\ UNCHANGED <<inputVars, size, rendered, errno_, lastError, error_code,
                   described, shownLen, converted>>
    /\ UNCHANGED <<sinkVars, ret, vtext, utf8_buffer, endianVars>>

mbvs_vsnprintf ==
    /\ op = "mbvs" /\ pc = "vsnprintf"
    /\ RenderBody(pid_len, MBTXTLEN - pid_len)
    /\ pc' = "output"
    /\ UNCHANGED <<inputVars, size, errno_, lastError, error_code, described,
                   shownLen, converted>>
    /\ UNCHANGED <<sinkVars, stderrVars, endianVars>>

mbvs_output ==
    /\ op = "mbvs" /\ pc = "output"
    /\ shownLen' = Strlen(msg)
    /\ debugOut' = Append(debugOut, [textLen |-> Strlen(msg)])
    /\ pc' = "done"
    /\ UNCHANGED <<inputVars, msg, size, rendered, oob, errno_, lastError,
                   error_code, described, converted>>
    /\ UNCHANGED <<dialogs, stderr, syslog, stderrVars, endianVars>>

mbvs(Ls, Ps) ==
    \/ mbvs_call(Ls, Ps)
    \/ mbvs_sprintf
    \/ mbvs_vsnprintf
    \/ mbvs_output

(***************************************************************************)
(* vprintf_to_stderr, printf_to_stderr                                     *)
(***************************************************************************)
\* entering vprintf_to_stderr(fmt, v) with the rendering t of fmt/v, to
\* continue at r on return; b is the build
Enter_vprintf_to_stderr(b, t, r) ==
    /\ vtext' = t
    /\ ret' = r
    /\ rendered' = "none"
    /\ converted' = "none"
    /\ IF IsWin32(b)
       THEN /\ utf8_buffer' = FreshStack(VPRINTF_TO_STDERR_BUFSIZE, 0 - 1)
            /\ pc' = "v_vsnprintf"
       ELSE /\ utf8_buffer' = <<>>
            /\ pc' = "v_vfprintf"

\* #if defined(_WIN32): vsnprintf(utf8_buffer, VPRINTF_TO_STDERR_BUFSIZE, fmt, v)
vprintf_to_stderr_vsnprintf ==
    /\ pc = "v_vsnprintf"
    /\ \/ /\ rendered' = "ok"
          /\ utf8_buffer' =
                Store(utf8_buffer, VsnprintfStores(0, VPRINTF_TO_STDERR_BUFSIZE, vtext))
          /\ oob' = oob \cup
                Outside(utf8_buffer, VsnprintfStores(0, VPRINTF_TO_STDERR_BUFSIZE, vtext))
       \/ /\ rendered' = "fail"
          /\ \E z \in StackZeroAt :
                utf8_buffer' = FreshStack(VPRINTF_TO_STDERR_BUFSIZE, z)
          /\ UNCHANGED oob
    \* formatting may overwrite errno and the OS last-error code
    /\ errno_' \in MayChange(errno_, "EILSEQ")
    /\ lastError' \in MayChange(lastError, "ERROR_NO_UNICODE_TRANSLATION")
    /\ pc' = "v_convert"
    /\ UNCHANGED <<inputVars, msg, size, error_code, described,
                   shownLen, converted>>
    /\ UNCHANGED <<sinkVars, ret, vtext, pid_len, endianVars>>

\* the write vprintf_to_stderr makes on Windows: the re-encoded buffer when
\* pyi_win32_utf8_to_mbs succeeded, the UTF-8 buffer otherwise
StderrWrite(convOk, len) ==
    <<[from |-> IF convOk THEN "mbcs_buffer" ELSE "utf8_buffer", textLen |-> len]>>

vprintf_to_stderr_convert ==
    /\ pc = "v_convert"
    /\ \E convOk \in BOOLEAN :
        /\ converted' = convOk
        /\ stderr' = stderr \o StderrWrite(convOk, Strlen(utf8_buffer))
        \* a failed conversion sets the OS last-error code
        /\ lastError' = IF convOk THEN lastError ELSE "ERROR_NO_UNICODE_TRANSLATION"
    \* writing to the stream may set errno
    /\ errno_' \in MayChange(errno_, "EBADF")
    /\ shownLen' = Strlen(utf8_buffer)
    /\ pc' = ret
    /\ UNCHANGED <<inputVars, msg, size, rendered, oob, error_code, described>>
    /\ UNCHANGED <<dialogs, debugOut, syslog, stderrVars, endianVars>>

\* #else: vfprintf(stderr, fmt, v)
vprintf_to_stderr_vfprintf ==
    /\ pc = "v_vfprintf"
    /\ stderr' = Append(stderr, [from |-> "fmt", textLen |-> TextLen(vtext)])
    /\ errno_' \in MayChange(errno_, "EBADF")
    /\ shownLen' = TextLen(vtext)
    /\ pc' = ret
    /\ UNCHANGED <<inputVars, msg, size, rendered, oob, lastError, error_code,
                   described, converted>>
    /\ UNCHANGED <<dialogs, debugOut, syslog, stderrVars, endianVars>>

vprintf_to_stderr ==
    \/ vprintf_to_stderr_vsnprintf
    \/ vprintf_to_stderr_convert
    \/ vprintf_to_stderr_vfprintf

printf_to_stderr_call(Ls) ==
    /\ pc = "idle"
    /\ \E l \in Ls, b \in Builds :
        /\ fmtLen' = l /\ build' = b
        /\ Enter_vprintf_to_stderr(b, <<Seg(SegBody, l)>>, "done")
    /\ op' = "printf_to_stderr"
    /\ UNCHANGED <<funcLen, descLen, pidDigits, entryCode, msg, size, oob, errno_,
                   lastError, error_code, described, shownLen, pid_len>>
    /\ UNCHANGED <<sinkVars, endianVars>>

(***************************************************************************)
(* pyi_global_printf                                                       *)
(***************************************************************************)
MirrorsToSyslog(b) == b = "apple_windowed_debug"

pyi_global_printf_call(Ls, Ps) ==
    /\ pc = "idle"
    /\ \E l \in Ls, d \in Ps, b \in Builds :
        /\ fmtLen' = l /\ pidDigits' = d /\ build' = b
    /\ op' = "pyi_global_printf" /\ pc' = "pid"
    /\ UNCHANGED <<funcLen, descLen, entryCode, msg, size, rendered, oob, errno_,
                   lastError, error_code, described, shownLen, converted>>
    /\ UNCHANGED <<sinkVars, stderrVars, endianVars>>

\* fprintf(stderr, "[%d] ", getpid()); then vprintf_to_stderr(fmt, v)
pyi_global_printf_pid ==
    /\ op = "pyi_global_printf" /\ pc = "pid"
    /\ stderr' = Append(stderr, [from |-> "pid", textLen |-> TextLen(PidText(pidDigits))])
    /\ Enter_vprintf_to_stderr(build, BodyText,
                               IF MirrorsToSyslog(build) THEN "syslog" ELSE "done")
    /\ UNCHANGED <<inputVars, msg, size, oob, errno_, lastError, error_code,
                   described, shownLen, pid_len>>
    /\ UNCHANGED <<dialogs, debugOut, syslog, endianVars>>

pyi_global_printf_syslog ==
    /\ op = "pyi_global_printf" /\ pc = "syslog"
    /\ syslog' = Append(syslog, [from |-> "fmt", textLen |-> fmtLen])
    /\ pc' = "done"
    /\ UNCHANGED <<inputVars, msg, size, rendered, oob, errno_, lastError,
                   error_code, described, shownLen, converted>>
    /\ UNCHANGED <<dialogs, stderr, debugOut, stderrVars, endianVars>>

pyi_global_printf(Ls, Ps) ==
    \/ pyi_global_printf_call(Ls, Ps)
    \/ pyi_global_printf_pid
    \/ pyi_global_printf_syslog

(***************************************************************************)
(* pyi_global_perror                                                       *)
(***************************************************************************)
pyi_global_perror_call(Ls, Fs, Ds, Es) ==
    /\ pc = "idle"
    /\ \E l \in Ls, f \in Fs, d \in Ds, e \in Es, b \in Builds :
        /\ fmtLen' = l /\ funcLen' = f /\ descLen' = d /\ build' = b
        /\ errno_' = e
        /\ entryCode' = e
        /\ Enter_vprintf_to_stderr(b, <<Seg(SegBody, l)>>, "perror")
    /\ op' = "pyi_global_perror"
    /\ UNCHANGED <<pidDigits, msg, size, oob, lastError, error_code, described,
                   shownLen, pid_len>>
    /\ UNCHANGED <<sinkVars, endianVars>>

\* perror(funcname): writes funcname, ": " and strerror(errno) to stderr
pyi_global_perror_perror ==
    /\ op = "pyi_global_perror" /\ pc = "perror"
    /\ described' = errno_
    /\ stderr' = Append(stderr, [from |-> "perror",
                                 textLen |-> funcLen + SepLen + descLen])
    /\ pc' = IF MirrorsToSyslog(build) THEN "syslog" ELSE "done"
    /\ UNCHANGED <<inputVars, msg, size, rendered, oob, errno_, lastError,
                   error_code, shownLen, converted>>
    /\ UNCHANGED <<dialogs, debugOut, syslog, stderrVars, endianVars>>

\* vsyslog(LOG_NOTICE, fmt, v); vsyslog(LOG_NOTICE, "%m\n", NULL);
pyi_global_perror_syslog ==
    /\ op = "pyi_global_perror" /\ pc = "syslog"
    /\ syslog' = syslog \o <<[from |-> "fmt", textLen |-> fmtLen],
                            [from |-> "%m", textLen |-> descLen]>>
    /\ pc' = "done"
    /\ UNCHANGED <<inputVars, msg, size, rendered, oob, errno_, lastError,
                   error_code, described, shownLen, converted>>
    /\ UNCHANGED <<dialogs, stderr, debugOut, stderrVars, endianVars>>

pyi_global_perror(Ls, Fs, Ds, Es) ==
    \/ pyi_global_perror_call(Ls, Fs, Ds, Es)
    \/ pyi_global_perror_perror
    \/ pyi_global_perror_syslog

(***************************************************************************)
(* pyi_global_winerror                                                     *)
(***************************************************************************)
pyi_global_winerror_call(Ls, Fs, Ds, Es) ==
    /\ pc = "idle"
    /\ \E l \in Ls, f \in Fs, d \in Ds, e \in Es, b \in {w \in Builds : IsWin32(w)} :
        /\ fmtLen' = l /\ funcLen' = f /\ descLen' = d /\ build' = b
        /\ lastError' = e
        /\ entryCode' = e
        /\ Enter_vprintf_to_stderr(b, <<Seg(SegBody, l)>>, "winerror")
    /\ op' = "pyi_global_winerror"
    /\ UNCHANGED <<pidDigits, msg, size, oob, errno_, error_code, described,
                   shownLen, pid_len>>
    /\ UNCHANGED <<sinkVars, endianVars>>

\* printf_to_stderr("%s: %s", funcname, GetWinErrorString(GetLastError()));
pyi_global_winerror_describe ==
    /\ op = "pyi_global_winerror" /\ pc = "winerror"
    /\ described' = lastError
    /\ Enter_vprintf_to_stderr(build,
          <<Seg(SegFunc, funcLen), Seg(SegSep, SepLen), Seg(SegDesc, descLen)>>,
          "done")
    /\ UNCHANGED <<inputVars, msg, size, oob, errno_, lastError, error_code,
                   shownLen, pid_len>>
    /\ UNCHANGED <<sinkVars, endianVars>>

pyi_global_winerror(Ls, Fs, Ds, Es) ==
    \/ pyi_global_winerror_call(Ls, Fs, Ds, Es)
    \/ pyi_global_winerror_describe

(***************************************************************************)
(* Endianness normalization (pyi_endian.h).  A value of n bytes is the     *)
(* sequence of its n base-256 digits, most significant first.              *)
(***************************************************************************)
Branches ==
    {"linux_cygwin", "apple", "openbsd", "netbsd_freebsd_dragonfly",
     "win32_msvc", "win32_gnuc"}

Orders == {"LITTLE_ENDIAN", "BIG_ENDIAN"}

\* a target: the platform branch of the header and the byte order of the host
\* (on _WIN32, the value of BYTE_ORDER)
Targets == {[branch |-> b, order |-> o] : b \in Branches, o \in Orders}

\* the value a host of the given order reads from the bytes w in memory
HostLoad(order, w) ==
    IF order = "LITTLE_ENDIAN" THEN [i \in 1..Len(w) |-> w[Len(w) + 1 - i]] ELSE w

\* faulty variant: a swap that exchanges the two halves without reversing inside them
SwapHalves(v) ==
    [i \in 1..Len(v) |->
        IF i <= Len(v) \div 2 THEN v[i + Len(v) \div 2] ELSE v[i - Len(v) \div 2]]

\* _byteswap_ushort/_ulong/_uint64, __builtin_bswap16/32/64
Bswap(v) == [i \in 1..Len(v) |-> v[Len(v) + 1 - i]]

\* be16toh/be32toh/be64toh, betoh16/32/64, OSSwapBigToHostInt16/32/64 of the
\* platform: big-endian to host order
BigToHost(order, v) == IF order = "LITTLE_ENDIAN" THEN Bswap(v) ELSE v

UsesSystemHeader(t) ==
    t.branch \in {"linux_cygwin", "apple", "openbsd", "netbsd_freebsd_dragonfly"}

pyi_be16toh(t, v) ==
    IF UsesSystemHeader(t) THEN BigToHost(t.order, v)
    ELSE IF t.order = "LITTLE_ENDIAN" THEN Bswap(v) ELSE v

pyi_be32toh(t, v) ==
    IF UsesSystemHeader(t) THEN BigToHost(t.order, v)
    ELSE IF t.order = "LITTLE_ENDIAN" THEN Bswap(v) ELSE v

pyi_be64toh(t, v) ==
    IF UsesSystemHeader(t) THEN BigToHost(t.order, v)
    ELSE IF t.order = "LITTLE_ENDIAN" THEN Bswap(v) ELSE v

\* the byte sequences converted: all of n zeros and ones, and two of n
\* pairwise distinct bytes
Wires(n) ==
    [1..n -> {0, 1}] \cup {[i \in 1..n |-> 17 * i], [i \in 1..n |-> 255 - i]}

\* reading an n-byte big-endian field on target t
be_read(name, n) ==
    /\ pc = "idle"
    /\ \E t \in Targets, w \in Wires(n) :
        /\ target' = t /\ wire' = w
        /\ x' = HostLoad(t.order, w)
    /\ op' = name /\ pc' = "convert"
    /\ UNCHANGED host
    /\ UNCHANGED <<build, fmtLen, funcLen, descLen, pidDigits, entryCode, msg, size,
                   rendered, oob, errno_, lastError, error_code, described,
                   shownLen, converted>>
    /\ UNCHANGED <<sinkVars, stderrVars>>

be_convert(name, result) ==
    /\ op = name /\ pc = "convert"
    /\ host' = result
    /\ pc' = "done"
    /\ UNCHANGED <<target, wire, x>>
    /\ UNCHANGED <<inputVars, msg, size, rendered, oob, errno_, lastError,
                   error_code, described, shownLen, converted>>
    /\ UNCHANGED <<sinkVars, stderrVars>>

be16toh_read == be_read("pyi_be16toh", 2)
be16toh_convert == be_convert("pyi_be16toh", pyi_be16toh(target, x))
be32toh_read == be_read("pyi_be32toh", 4)
be32toh_convert == be_convert("pyi_be32toh", pyi_be32toh(target, x))
be64toh_read == be_read("pyi_be64toh", 8)
be64toh_convert == be_convert("pyi_be64toh", pyi_be64toh(target, x))

(***************************************************************************)
(* Properties of the windowed OS-error-annotated composition.              *)
(***************************************************************************)
InMbfatal == op \in {"mbfatal_winerror", "mbfatal_perror"}

\* body ++ funcname ++ ": " ++ description
FullText ==
    <<Seg(SegBody, fmtLen), Seg(SegFunc, funcLen), Seg(SegSep, SepLen),
      Seg(SegDesc, descLen)>>

\* the message box was shown for a body whose rendering succeeded
Composed == InMbfatal /\ pc = "done" /\ rendered = "ok"

\* number of characters of segment seg in the displayed string
Contribution(seg) ==
    Cardinality({i \in 0..(shownLen - 1) : msg[i] >= 0 /\ msg[i] \div 10000 = seg})

\* length of the displayed string in front of segment seg when nothing is cut
StartOf(seg) ==
    IF seg = SegFunc THEN fmtLen
    ELSE IF seg = SegSep THEN fmtLen + funcLen
    ELSE fmtLen + funcLen + SepLen

LenOf(seg) ==
    IF seg = SegFunc THEN funcLen ELSE IF seg = SegSep THEN SepLen ELSE descLen

\* C1: in mbfatal_winerror and mbfatal_perror no step of the composition
\* writes to an index outside 0..MBTXTLEN-1 of the message buffer.
C1_NoWriteOutsideMsg == InMbfatal => oob = {}

\* C2: the buffer handed to show_message_box holds a NUL at an index
\* <= MBTXTLEN-1, so the displayed string is at most MBTXTLEN-1 long, and
\* when the body rendering succeeded no byte in front of its terminator is
\* an unwritten one.
C2_TerminatedAndWritten ==
    (InMbfatal /\ pc \in {"show", "done"}) =>
        LET n == Strlen(msg)
        IN  /\ n <= MBTXTLEN - 1
            /\ \E i \in 0..(MBTXTLEN - 1) : msg[i] = NUL
            /\ rendered = "ok" =>
                 /\ msg[n] = NUL
                 /\ \A i \in 0..(n - 1) : ~IsUninit(msg[i])

\* the separator's second character was overwritten by the final terminator
C2_Witness ==
    /\ Composed
    /\ fmtLen + funcLen = MBTXTLEN - 2
    /\ shownLen = MBTXTLEN - 1
    /\ msg[MBTXTLEN - 2] = Chr(SegSep, 0)

\* C4: when the rendered body alone has length >= MBTXTLEN-1, the string
\* displayed is exactly the first MBTXTLEN-1 characters of the body.
C4_LongBodyKept ==
    (Composed /\ fmtLen >= MBTXTLEN - 1) =>
        /\ shownLen = MBTXTLEN - 1
        /\ \A i \in 0..(MBTXTLEN - 2) : msg[i] = Chr(SegBody, i)

C4_Witness ==
    /\ Composed /\ fmtLen = 2 * MBTXTLEN - 48 /\ funcLen > 0 /\ descLen = MBTXTLEN
    /\ shownLen = MBTXTLEN - 1

\* C5 (as stated): each of the function name, the separator and the error
\* description either appears in the final buffer in full or contributes no
\* character to it.
C5_WholesaleDrop ==
    Composed =>
        \A seg \in {SegFunc, SegSep, SegDesc} :
            Contribution(seg) \in {0, LenOf(seg)}

\* C5 (amended): a segment that starts inside the capacity and does not fit
\* entirely is cut at the capacity: its leading characters fill the buffer
\* up to index MBTXTLEN-2, they end the displayed string, and no later
\* segment contributes a character.
C5_CutAtCapacity ==
    Composed =>
        \A seg \in {SegFunc, SegSep, SegDesc} :
            (StartOf(seg) < MBTXTLEN - 1 /\ StartOf(seg) + LenOf(seg) > MBTXTLEN - 1) =>
                /\ shownLen = MBTXTLEN - 1
                /\ \A i \in StartOf(seg)..(MBTXTLEN - 2) :
                       msg[i] = Chr(seg, i - StartOf(seg))
                /\ Contribution(seg) = MBTXTLEN - 1 - StartOf(seg)
                /\ \A later \in {SegFunc, SegSep, SegDesc} :
                       later > seg => Contribution(later) = 0

\* the function name was cut: only its first characters are displayed
C5_Witness ==
    /\ Composed
    /\ fmtLen = 1 /\ funcLen = MBTXTLEN
    /\ Contribution(SegFunc) = MBTXTLEN - 2

\* C9: when the body rendering succeeds, the string displayed is the first
\* min(L, MBTXTLEN-1) characters of body ++ funcname ++ ": " ++ description,
\* L being the length of that concatenation.
C9_PrefixOfConcatenation ==
    Composed =>
        /\ shownLen = Min(TextLen(FullText), MBTXTLEN - 1)
        /\ \A i \in 0..(shownLen - 1) : msg[i] = TextChar(FullText, i)

\* everything fits: all four segments are displayed
C9_Witness ==
    /\ Composed
    /\ fmtLen > 0 /\ funcLen > 0 /\ descLen > 0
    /\ shownLen = fmtLen + funcLen + SepLen + descLen
    /\ msg[shownLen - 1] = Chr(SegDesc, descLen - 1)

(***************************************************************************)
(* Properties of the bounded renderings, the prefix, the fallback and the  *)
(* error description.                                                      *)
(***************************************************************************)
StderrOps ==
    {"printf_to_stderr", "pyi_global_printf", "pyi_global_perror",
     "pyi_global_winerror"}

ShowOps == {"mbfatalerror", "mbothererror", "mbfatal_winerror", "mbfatal_perror"}

\* the rendering t, stored from off in a buffer with cap bytes left, was cut
\* to cap - 1 characters and terminated
CutTo(buf, off, cap, t) ==
    /\ Strlen(buf) - off = cap - 1
    /\ buf[off + cap - 1] = NUL
    /\ \A i \in 0..(cap - 2) : buf[off + i] = TextChar(t, i)

\* C3: in mbfatalerror, mbothererror, mbvs and (on Windows)
\* vprintf_to_stderr, when the rendered text is longer than the available
\* capacity the stored string is null-terminated, its length is exactly
\* capacity-minus-one, it is the leading part of the full rendering, and no
\* byte past the buffer bound is written.
C3_BoundedRendering ==
    /\ (/\ op \in {"mbfatalerror", "mbothererror"}
        /\ rendered = "ok"
        /\ fmtLen > MBTXTLEN)
         => (CutTo(msg, 0, MBTXTLEN, BodyText) /\ oob = {})
    /\ (/\ op = "mbvs"
        /\ rendered = "ok"
        /\ fmtLen > MBTXTLEN - pid_len)
         => (CutTo(msg, pid_len, MBTXTLEN - pid_len, BodyText) /\ oob = {})
    /\ (/\ op \in StderrOps
        /\ IsWin32(build)
        /\ rendered = "ok"
        /\ TextLen(vtext) > VPRINTF_TO_STDERR_BUFSIZE)
         => (CutTo(utf8_buffer, 0, VPRINTF_TO_STDERR_BUFSIZE, vtext) /\ oob = {})

\* a body that would fit msg alone is cut because of the pid prefix
C3_Witness ==
    /\ op = "mbvs" /\ pc = "done" /\ rendered = "ok"
    /\ fmtLen < MBTXTLEN /\ fmtLen > MBTXTLEN - pid_len
    /\ shownLen = MBTXTLEN - 1
    /\ msg[MBTXTLEN - 2] = Chr(SegBody, MBTXTLEN - 2 - pid_len)

\* C6: the string mbvs passes to the debug sink starts with "[pid] ", the
\* rendered message starts immediately after it and nothing is written
\* outside msg; in pyi_global_printf the write of "[pid] " is the first
\* write to stderr, before any byte of the message, in every build.
C6_PidPrefixFirst ==
    /\ (op = "mbvs" /\ pc \in {"vsnprintf", "output", "done"}) =>
          /\ pid_len = pidDigits + 3
          /\ msg[0] = Chr(SegLBracket, 0)
          /\ \A i \in 1..pidDigits : msg[i] = Chr(SegPid, i - 1)
          /\ msg[pidDigits + 1] = Chr(SegRBracket, 0)
          /\ msg[pidDigits + 2] = Chr(SegSpace, 0)
          /\ oob = {}
          /\ (rendered = "ok" /\ fmtLen > 0) =>
                /\ msg[pidDigits + 3] = Chr(SegBody, 0)
                /\ Strlen(msg) = Min(pidDigits + 3 + fmtLen, MBTXTLEN - 1)
    /\ op = "pyi_global_printf" =>
          /\ stderr # <<>> =>
                /\ stderr[1].from = "pid"
                /\ stderr[1].textLen = pidDigits + 3
          /\ \A k \in 2..Len(stderr) : stderr[k].from # "pid"
          /\ pc \in {"syslog", "done"} => Len(stderr) = 2
          /\ syslog # <<>> => Len(stderr) = 2

C6_Witness ==
    /\ op = "mbvs" /\ pc = "done" /\ rendered = "ok"
    /\ pidDigits = MaxPidDigits /\ fmtLen > 0
    /\ msg[pid_len - 1] = Chr(SegSpace, 0)
    /\ msg[pid_len] = Chr(SegBody, 0)
    /\ debugOut # <<>>

CaptionOf(o) == IF o = "mbothererror" THEN "Error detected" ELSE "Fatal error detected"

IconOf(o) == IF o = "mbothererror" THEN "MB_ICONWARNING" ELSE "MB_ICONEXCLAMATION"

IsBufferWrite(w) == w.from \in {"mbcs_buffer", "utf8_buffer"}

\* C7: a re-encoding failure never suppresses a message: show_message_box
\* displays exactly one dialog per call (the wide-text one when the
\* conversion succeeds, the raw-byte one with the same message, caption and
\* icon when it fails), and vprintf_to_stderr on Windows writes exactly once
\* per call (the re-encoded buffer on success, the UTF-8 buffer on failure).
C7_NeverSuppressed ==
    /\ op \in ShowOps =>
          IF pc = "done"
          THEN /\ Len(dialogs) = 1
               /\ dialogs[1].api =
                     (IF converted = TRUE THEN "MessageBoxW" ELSE "MessageBoxA")
               /\ dialogs[1].textLen = Strlen(msg)
               /\ dialogs[1].caption = CaptionOf(op)
               /\ dialogs[1].uType = IconOf(op)
          ELSE dialogs = <<>>
    /\ (op \in StderrOps /\ IsWin32(build)) =>
          LET writes == SelectSeq(stderr, IsBufferWrite)
              calls  == IF op = "pyi_global_winerror" THEN 2 ELSE 1
          IN  /\ Len(writes) <= calls
              /\ pc = "done" =>
                    /\ Len(writes) = calls
                    /\ writes[calls].from =
                          (IF converted = TRUE THEN "mbcs_buffer" ELSE "utf8_buffer")
              /\ pc = "v_vsnprintf" => Len(writes) < calls
              /\ pc = "v_convert" => Len(writes) < calls

\* the conversion failed and the raw-byte dialog was shown
C7_Witness ==
    /\ op = "mbothererror" /\ pc = "done"
    /\ converted = FALSE
    /\ Len(dialogs) = 1
    /\ dialogs[1].api = "MessageBoxA"
    /\ dialogs[1].textLen > 0

\* C10: in mbfatal_winerror, mbfatal_perror, pyi_global_perror and
\* pyi_global_winerror the error description emitted is that of the error
\* code that was current when the operation was entered.
C10_DescribesEntryCode ==
    (/\ op \in {"mbfatal_winerror", "mbfatal_perror", "pyi_global_perror",
                "pyi_global_winerror"}
     /\ described # "none")
        => described = entryCode

(***************************************************************************)
(* Properties of the endianness normalization.                             *)
(***************************************************************************)
RECURSIVE Reversed(_)
Reversed(v) == IF v = <<>> THEN <<>> ELSE Append(Reversed(Tail(v)), Head(v))

RECURSIVE Value(_)
Value(v) == IF v = <<>> THEN 0 ELSE Value(SubSeq(v, 1, Len(v) - 1)) * 256 + v[Len(v)]

Convert(t, v) ==
    IF Len(v) = 2 THEN pyi_be16toh(t, v)
    ELSE IF Len(v) = 4 THEN pyi_be32toh(t, v)
    ELSE pyi_be64toh(t, v)

\* C8: pyi_be16toh/pyi_be32toh/pyi_be64toh return the full byte reversal of
\* x on a little-endian target and x itself on a big-endian one; so the
\* big-endian bytes 00 00 01 00 and 01 00 convert to 256 on either kind of
\* host, and on a little-endian target converting twice returns x.
C8_BigEndianToHost ==
    (op \in {"pyi_be16toh", "pyi_be32toh", "pyi_be64toh"} /\ pc = "done") =>
        /\ target.order = "LITTLE_ENDIAN" => host = Reversed(x)
        /\ target.order = "BIG_ENDIAN" => host = x
        /\ host = wire
        /\ wire = <<0, 0, 1, 0>> => Value(host) = 256
        /\ wire = <<1, 0>> => Value(host) = 256
        /\ target.order = "LITTLE_ENDIAN" => Convert(target, host) = x

C8_Witness ==
    /\ op = "pyi_be32toh" /\ pc = "done"
    /\ target = [branch |-> "win32_gnuc", order |-> "LITTLE_ENDIAN"]
    /\ wire = <<0, 0, 1, 0>>
    /\ x = <<0, 1, 0, 0>>
    /\ Value(host) = 256

(***************************************************************************)
(* Specifications.                                                         *)
(***************************************************************************)
\* the windowed OS-error-annotated composition, over all boundary lengths
NextMb ==
    \/ mbfatal_winerror(BodyLens, FuncLens, DescLens, {"ERROR_FILE_NOT_FOUND"})
    \/ mbfatal_perror(BodyLens, FuncLens, DescLens, {"ENOENT"})

SpecMb == Init /\ [][NextMb]_vars

\* lengths around the capacity of utf8_buffer, and short ones
StderrLens ==
    (0..Slack) \cup Around(VPRINTF_TO_STDERR_BUFSIZE) \cup {3 * MBTXTLEN}

PidDigitCounts == {1, Slack + 1, MaxPidDigits}

\* the whole diagnostic layer
NextDiag ==
    \/ mbfatal_winerror({0, MBTXTLEN + Slack}, {Slack}, {Slack + 1}, WinCodes)
    \/ mbfatal_perror({0, MBTXTLEN + Slack}, {Slack}, {Slack + 1}, ErrnoCodes)
    \/ mbfatalerror(BodyLens)
    \/ mbothererror(BodyLens)
    \/ mbvs(BodyLens, PidDigitCounts)
    \/ vprintf_to_stderr
    \/ printf_to_stderr_call(StderrLens)
    \/ pyi_global_printf(StderrLens, PidDigitCounts)
    \/ pyi_global_perror({0, Slack}, {Slack}, {Slack + 1}, ErrnoCodes)
    \/ pyi_global_winerror({0, Slack}, {Slack}, {Slack + 1}, WinCodes)

SpecDiag == Init /\ [][NextDiag]_vars

NextEndian ==
    \/ be16toh_read
    \/ be16toh_convert
    \/ be32toh_read
    \/ be32toh_convert
    \/ be64toh_read
    \/ be64toh_convert

SpecEndian == Init /\ [][NextEndian]_vars

Next == NextMb \/ NextDiag \/ NextEndian

Spec == Init /\ [][Next]_vars

====
